---- MODULE Spec2Model ----
(***************************************************************************)
(* The two test-data generator scripts of CTViewer:                        *)
(*   generate_simple_test.py  (bytearray based, writes into test-data/)    *)
(*   generate_test_data.py    (numpy based, writes into the cwd)           *)
(* One run of one script is a behaviour.  A step is one iteration of the    *)
(* outermost loop of a bytearray generator (its two inner loops folded     *)
(* in), the whole loop nest of a numpy generator, one file write, or the   *)
(* module-level makedirs.                                                  *)
(***************************************************************************)
EXTENDS Integers, Sequences, FiniteSets, TLC

VARIABLES
    script,     \* which script runs: "simple" or "data"
    pc,         \* the statement the run is at, "done" or "aborted"
    dim,        \* <<width, height, depth>> of the running bytearray generator
    z,          \* counter of its outermost loop
    data,       \* its bytearray, as the pieces appended by each z iteration
    volume,     \* the numpy array: [shape, itemsize, a], with volume[x, y, z]
                \* at a[x+1][y+1][z+1]
    files,      \* path -> [st, content, n, opens]: the object written and
                \* the number of its bytes (sidecar: items) that reached the file
    err,        \* the exception that ended the run, or "none"
    failedAt    \* the statement that raised it, or "none"

vars == <<script, pc, dim, z, data, volume, files, err, failedAt>>

(* ---------------------------- bounds ---------------------------------- *)

\* A write that fails part-way leaves a prefix of at most MaxPartial items.
MaxPartial == 2

\* The depths the parametrised gradient loop is run with (SpecDepth).
MaxDepth == 16

(* ----------------------- program constants ---------------------------- *)

SimpleSize == 16
CheckerSize == 32
SimpleBlock == 8
ByteMax == 255
Uint8Size == 64
GradientStep == 4
Uint16Size == 32
center == 16
radius == 12
SphereScale == 4095
Checker64Size == 64
block_size == 8

ZeroDivisionError == "ZeroDivisionError"

Min(a, b) == IF a < b THEN a ELSE b

(* ------------------------- voxel values ------------------------------- *)

\* Divisor with the "- 1" left out.
DivisorDepth(depth) == depth

\* The divisor of value = (z * 255) // (depth - 1), used as written.
Divisor(depth) == depth - 1

\* GradientValue with the ramp running down instead of up.
GradientValueDown(zz, depth) ==
    ((depth - 1 - zz) * ByteMax) \div Divisor(depth)

\* value = (z * 255) // (depth - 1), for a non-zero divisor
GradientValue(zz, depth) == (zz * ByteMax) \div Divisor(depth)

\* value = 255 if (bx + by + bz) % 2 == 0 else 0, blocks of 8
CheckerValue(x, y, zz) ==
    LET bx == (x \div SimpleBlock) % 2
        by == (y \div SimpleBlock) % 2
        bz == (zz \div SimpleBlock) % 2
    IN  IF (bx + by + bz) % 2 = 0 THEN ByteMax ELSE 0

\* bytearray.append accepts only 0..255 (ValueError otherwise)
ByteOk(v) == v \in 0..255

\* GradientU8 with a step of 5: 63 * 5 does not fit a uint8.
GradientU8Times5(zz) == zz * (GradientStep + 1)

\* volume[:, :, z] = z * 4
GradientU8(zz) == zz * GradientStep

\* (x-center)**2 + (y-center)**2 + (z-center)**2, the argument of np.sqrt
Dist2(x, y, zz) ==
    (x - center) * (x - center) + (y - center) * (y - center)
        + (zz - center) * (zz - center)

RECURSIVE ISqrtSearch(_, _, _)
ISqrtSearch(n, lo, hi) ==
    IF lo = hi THEN lo
    ELSE LET mid == (lo + hi + 1) \div 2
         IN  IF mid * mid <= n THEN ISqrtSearch(n, mid, hi)
             ELSE ISqrtSearch(n, lo, mid - 1)

\* floor(sqrt(n))
ISqrt(n) == ISqrtSearch(n, 0, Min(n, 46340))

RECURSIVE Gcd(_, _)
Gcd(a, b) == IF b = 0 THEN a ELSE Gcd(b, a % b)

\* InSphere with the radius one too large.
InSphereLoose(d2) == d2 < (radius + 1) * (radius + 1)

\* dist < radius, with dist = np.sqrt(d2): the square root is correctly
\* rounded and monotone and radius is an integer, so this is d2 < radius^2.
InSphere(d2) == d2 < radius * radius

\* int((1 - dist/radius) * 4095) with dist = np.sqrt(d2), for dist < radius:
\* the floor of (radius*S - S*sqrt(d2)) / radius, computed in integers with
\* S/radius in lowest terms sN/rN.  q = floor(sN*sqrt(d2)).  (The float64
\* evaluation gives this same integer for every d2 in 0..143.)
SphereValue(d2) ==
    LET g == Gcd(SphereScale, radius)
        sN == SphereScale \div g
        rN == radius \div g
        q == ISqrt(sN * sN * d2)
    IN  IF q * q = sN * sN * d2
        THEN (radius * sN - q) \div rN
        ELSE (radius * sN - q - 1) \div rN

\* Checker64Lit with the z block left out of the parity.
Checker64LitNoZ(x, y, zz) ==
    LET bx == (x \div block_size) % 2
        by == (y \div block_size) % 2
    IN  (bx + by) % 2 = 0

\* (bx + by + bz) % 2 == 0 with blocks of block_size
Checker64Lit(x, y, zz) ==
    LET bx == (x \div block_size) % 2
        by == (y \div block_size) % 2
        bz == (zz \div block_size) % 2
    IN  (bx + by + bz) % 2 = 0

\* (A function over 1..n is made a sequence value by "\o <<>>".)

\* Storing into a numpy uint8 / uint16 array keeps the low bits.
AsUint8(v) == v % 256
AsUint16(v) == v % 65536

\* volume[x, y, z]
At(vol, x, y, zz) == vol.a[x + 1][y + 1][zz + 1]

\* volume.size
NdSize(vol) == vol.shape[1] * vol.shape[2] * vol.shape[3]

\* ndarray.tofile writing one byte per element whatever the element type.
NdNBytesNarrow(vol) == NdSize(vol)

\* The number of bytes volume.tofile(path) writes.
NdNBytes(vol) == NdSize(vol) * vol.itemsize

\* Byte i (from 0) of what volume.tofile(path) writes: the elements in C
\* order (last index fastest), each itemsize bytes, little-endian.
NdByte(vol, i) ==
    LET e == i \div vol.itemsize
        j == i % vol.itemsize
        zz == e % vol.shape[3]
        yy == (e \div vol.shape[3]) % vol.shape[2]
        xx == e \div (vol.shape[3] * vol.shape[2])
        v == At(vol, xx, yy, zz)
    IN  IF j = 0 THEN v % 256 ELSE (v \div 256) % 256

RECURSIVE DataLenFrom(_, _)
DataLenFrom(d, k) ==
    IF k > Len(d) THEN 0 ELSE Len(d[k]) + DataLenFrom(d, k + 1)

\* len(data)
DataLen(d) == DataLenFrom(d, 1)

RECURSIVE DataAtFrom(_, _, _)
DataAtFrom(d, k, i) ==
    IF i < Len(d[k]) THEN d[k][i + 1] ELSE DataAtFrom(d, k + 1, i - Len(d[k]))

\* data[i]
DataAt(d, i) == DataAtFrom(d, 1, i)

(* --------------------------- control flow ----------------------------- *)

SimpleOrder ==
    << "makedirs",
       "simple.loop", "simple.raw", "simple.json",
       "checker.loop", "checker.raw", "checker.json" >>

\* DataOrder with each sidecar written before its raw file.
DataOrderJsonFirst ==
    << "uint8.loop", "uint8.json", "uint8.raw",
       "uint16.loop", "uint16.json", "uint16.raw",
       "checker64.loop", "checker64.json", "checker64.raw" >>

DataOrder ==
    << "uint8.loop", "uint8.raw", "uint8.json",
       "uint16.loop", "uint16.raw", "uint16.json",
       "checker64.loop", "checker64.raw", "checker64.json" >>

Order(s) == IF s = "simple" THEN SimpleOrder ELSE DataOrder

Pos(s, at) == CHOOSE i \in 1..Len(Order(s)) : Order(s)[i] = at

Succ(s, at) ==
    IF Pos(s, at) = Len(Order(s)) THEN "done" ELSE Order(s)[Pos(s, at) + 1]

\* NextPc as if every statement were wrapped in "try: ... except: pass".
NextPcSwallow(s, at, ok) == Succ(s, at)

\* No statement of either script is inside a try block: an exception leaves
\* the function and the script.
NextPc(s, at, ok) == IF ok THEN Succ(s, at) ELSE "aborted"

\* width, height, depth of the bytearray generators; the shape given to
\* np.zeros (and the ranges of the loops) of the numpy generators.
Dims(p) ==
    CASE p = "simple.loop" -> <<SimpleSize, SimpleSize, SimpleSize>>
      [] p = "checker.loop" -> <<CheckerSize, CheckerSize, CheckerSize>>
      [] p = "uint8.loop" -> <<Uint8Size, Uint8Size, Uint8Size>>
      [] p = "uint16.loop" -> <<Uint16Size, Uint16Size, Uint16Size>>
      [] p = "checker64.loop" -> <<Checker64Size, Checker64Size, Checker64Size>>

ByteArrayLoops == {"simple.loop", "checker.loop"}
Loops == ByteArrayLoops

\* Bytes per element: np.uint8 is 1, np.uint16 is 2.
ItemSize(p) == IF p = "uint16.loop" THEN 2 ELSE 1

\* Move to statement p; arriving at a loop is entering its function, whose
\* first lines set the dimensions and the empty buffer.
Goto(p) ==
    /\ pc' = p
    /\ dim' = IF p \in Loops THEN Dims(p) ELSE dim
    /\ z' = IF p \in Loops THEN 0 ELSE z
    /\ data' = IF p \in ByteArrayLoops THEN <<>> ELSE data
    /\ volume' = volume

Raise(e) ==
    /\ pc' = NextPc(script, pc, FALSE)
    /\ err' = e
    /\ failedAt' = pc
    /\ UNCHANGED <<script, dim, z, data, volume>>

Return ==
    /\ Goto(NextPc(script, pc, TRUE))
    /\ UNCHANGED <<script, err, failedAt>>

(* ------------------------------ files --------------------------------- *)

Paths(s) ==
    IF s = "simple"
    THEN { "test-data/simple_test.raw", "test-data/simple_test.json",
           "test-data/checker_test.raw", "test-data/checker_test.json" }
    ELSE { "test_volume_uint8.raw", "test_volume_uint8.json",
           "test_volume_uint16.raw", "test_volume_uint16.json",
           "test_volume_checker.raw", "test_volume_checker.json" }

Absent == [st |-> "absent", content |-> <<>>, n |-> 0, opens |-> 0]

\* Writing content, of total bytes, to path (open 'w'/'wb' + write + close,
\* or tofile): in full, or an OSError from the open (nothing written) or
\* from the write (a prefix written).
WriteFile(path, content, total) ==
    \/ /\ UNCHANGED files
       /\ Raise("OSError")
    \/ /\ \E k \in 0..Min(MaxPartial, total - 1) :
             files' = [files EXCEPT ![path] =
                          [st |-> "partial", content |-> content, n |-> k,
                           opens |-> @.opens + 1]]
       /\ Raise("OSError")
    \/ /\ files' = [files EXCEPT ![path] =
                       [st |-> "complete", content |-> content, n |-> total,
                        opens |-> @.opens + 1]]
       /\ Return

Metadata(d, dtype, descr) ==
    << <<"dimensions", d>>,
       <<"dataType", dtype>>,
       <<"byteOrder", "little-endian">>,
       <<"spacing", <<"1.0", "1.0", "1.0">> >>,
       <<"description", descr>> >>

\* with open(path, 'w') as f: json.dump(metadata, f, indent=2)
WriteJson(path, meta) == WriteFile(path, meta, Len(meta))

(* ------------------- generate_simple_test.py -------------------------- *)

\* os.makedirs('test-data', exist_ok=True) at import time
MakeDirs ==
    /\ pc = "makedirs"
    /\ UNCHANGED files
    /\ \/ Return
       \/ Raise("OSError")

\* One iteration of "for z in range(depth)" of create_simple_test_volume.
SimpleLoopStep ==
    /\ pc = "simple.loop"
    /\ z < dim[3]
    /\ UNCHANGED <<script, files, volume, dim>>
    /\ LET v == GradientValue(z, dim[3])
       IN  IF Divisor(dim[3]) = 0   \* Python's // raises on a zero divisor
           THEN /\ pc' = NextPc(script, pc, FALSE)
                /\ err' = ZeroDivisionError
                /\ failedAt' = pc
                /\ UNCHANGED <<z, data>>
           ELSE IF ~ByteOk(v)
           THEN /\ pc' = NextPc(script, pc, FALSE)
                /\ err' = "ValueError"
                /\ failedAt' = pc
                /\ UNCHANGED <<z, data>>
           ELSE /\ data' = Append(data, [i \in 1..(dim[1] * dim[2]) |-> v] \o <<>>)
                /\ z' = z + 1
                /\ UNCHANGED <<pc, err, failedAt>>

SimpleLoopExit ==
    /\ pc = "simple.loop"
    /\ z = dim[3]
    /\ UNCHANGED files
    /\ Return

SimpleWriteRaw ==
    /\ pc = "simple.raw"
    /\ WriteFile("test-data/simple_test.raw", data, DataLen(data))

SimpleWriteJson ==
    /\ pc = "simple.json"
    /\ WriteJson("test-data/simple_test.json",
                 Metadata(dim, "uint8", "Simple 16x16x16 gradient test volume"))

\* One iteration of "for z in range(depth)" of create_checkerboard_test.
CheckerLoopStep ==
    /\ pc = "checker.loop"
    /\ z < dim[3]
    /\ UNCHANGED <<script, files, volume, dim>>
    /\ LET val(i) == CheckerValue((i - 1) % dim[1], (i - 1) \div dim[1], z)
           slab == [i \in 1..(dim[1] * dim[2]) |-> val(i)] \o <<>>
       IN  IF \E i \in 1..(dim[1] * dim[2]) : ~ByteOk(val(i))
           THEN /\ pc' = NextPc(script, pc, FALSE)
                /\ err' = "ValueError"
                /\ failedAt' = pc
                /\ UNCHANGED <<z, data>>
           ELSE /\ data' = Append(data, slab)
                /\ z' = z + 1
                /\ UNCHANGED <<pc, err, failedAt>>

CheckerLoopExit ==
    /\ pc = "checker.loop"
    /\ z = dim[3]
    /\ UNCHANGED files
    /\ Return

CheckerWriteRaw ==
    /\ pc = "checker.raw"
    /\ WriteFile("test-data/checker_test.raw", data, DataLen(data))

CheckerWriteJson ==
    /\ pc = "checker.json"
    /\ WriteJson("test-data/checker_test.json",
                 Metadata(dim, "uint8", "32x32x32 checkerboard pattern"))

(* --------------------- generate_test_data.py -------------------------- *)

\* The literal "dimensions" lists of the three sidecars.
Uint8MetaDims == <<64, 64, 64>>
Uint16MetaDims == <<32, 32, 32>>
Checker64MetaDims == <<64, 64, 64>>

\* np.zeros((64, 64, 64), dtype=np.uint8) and the loop
\* "for z in range(64): volume[:, :, z] = z * 4" of create_test_volume_uint8.
Uint8Fill ==
    /\ pc = "uint8.loop"
    /\ volume' =
          [shape |-> Dims(pc),
           itemsize |-> ItemSize(pc),
           a |-> [i \in 1..Dims(pc)[1] |->
                    [j \in 1..Dims(pc)[2] |->
                       [k \in 1..Dims(pc)[3] |->
                          AsUint8(GradientU8(k - 1))] \o <<>>]
                    \o <<>>] \o <<>>]
    /\ pc' = NextPc(script, pc, TRUE)
    /\ UNCHANGED <<script, dim, z, data, files, err, failedAt>>

Uint8WriteRaw ==
    /\ pc = "uint8.raw"
    /\ WriteFile("test_volume_uint8.raw", volume, NdNBytes(volume))

Uint8WriteJson ==
    /\ pc = "uint8.json"
    /\ WriteJson("test_volume_uint8.json",
                 Metadata(Uint8MetaDims, "uint8", "Test gradient volume (uint8)"))

\* np.zeros((32, 32, 32), dtype=np.uint16) and the three nested loops of
\* create_test_volume_uint16.
Uint16Fill ==
    /\ pc = "uint16.loop"
    /\ volume' =
          [shape |-> Dims(pc),
           itemsize |-> ItemSize(pc),
           a |-> [i \in 1..Dims(pc)[1] |->
                    [j \in 1..Dims(pc)[2] |->
                       [k \in 1..Dims(pc)[3] |->
                          IF InSphere(Dist2(i - 1, j - 1, k - 1))
                          THEN AsUint16(SphereValue(Dist2(i - 1, j - 1, k - 1)))
                          ELSE 0] \o <<>>]
                    \o <<>>] \o <<>>]
    /\ pc' = NextPc(script, pc, TRUE)
    /\ UNCHANGED <<script, dim, z, data, files, err, failedAt>>

Uint16WriteRaw ==
    /\ pc = "uint16.raw"
    /\ WriteFile("test_volume_uint16.raw", volume, NdNBytes(volume))

Uint16WriteJson ==
    /\ pc = "uint16.json"
    /\ WriteJson("test_volume_uint16.json",
                 Metadata(Uint16MetaDims, "uint16", "Test sphere volume (uint16)"))

\* np.zeros((64, 64, 64), dtype=np.uint8) and the three nested loops of
\* create_test_volume_checker.
Checker64Fill ==
    /\ pc = "checker64.loop"
    /\ volume' =
          [shape |-> Dims(pc),
           itemsize |-> ItemSize(pc),
           a |-> [i \in 1..Dims(pc)[1] |->
                    [j \in 1..Dims(pc)[2] |->
                       [k \in 1..Dims(pc)[3] |->
                          IF Checker64Lit(i - 1, j - 1, k - 1)
                          THEN AsUint8(ByteMax)
                          ELSE 0] \o <<>>]
                    \o <<>>] \o <<>>]
    /\ pc' = NextPc(script, pc, TRUE)
    /\ UNCHANGED <<script, dim, z, data, files, err, failedAt>>

Checker64WriteRaw ==
    /\ pc = "checker64.raw"
    /\ WriteFile("test_volume_checker.raw", volume, NdNBytes(volume))

Checker64WriteJson ==
    /\ pc = "checker64.json"
    /\ WriteJson("test_volume_checker.json",
                 Metadata(Checker64MetaDims, "uint8", "3D checkerboard pattern"))

(* --------------------------- specification ---------------------------- *)

Init ==
    /\ script \in {"simple", "data"}
    /\ pc = Order(script)[1]
    /\ dim = <<0, 0, 0>>
    /\ z = 0
    /\ data = <<>>
    /\ volume = <<>>
    /\ files = [p \in Paths(script) |-> Absent]
    /\ err = "none"
    /\ failedAt = "none"

Next ==
    \/ MakeDirs
    \/ SimpleLoopStep
    \/ SimpleLoopExit
    \/ SimpleWriteRaw
    \/ SimpleWriteJson
    \/ CheckerLoopStep
    \/ CheckerLoopExit
    \/ CheckerWriteRaw
    \/ CheckerWriteJson
    \/ Uint8Fill
    \/ Uint8WriteRaw
    \/ Uint8WriteJson
    \/ Uint16Fill
    \/ Uint16WriteRaw
    \/ Uint16WriteJson
    \/ Checker64Fill
    \/ Checker64WriteRaw
    \/ Checker64WriteJson

Spec == Init /\ [][Next]_vars

(* The gradient loop of create_simple_test_volume run as a function of its *)
(* local depth (width and height as in the script), up to its two writes.  *)

InitDepth ==
    /\ script = "simple"
    /\ pc = "simple.loop"
    /\ \E d \in 1..MaxDepth : dim = <<SimpleSize, SimpleSize, d>>
    /\ z = 0
    /\ data = <<>>
    /\ volume = <<>>
    /\ files = [p \in Paths(script) |-> Absent]
    /\ err = "none"
    /\ failedAt = "none"

NextDepth ==
    \/ SimpleLoopStep
    \/ SimpleLoopExit
    \/ SimpleWriteRaw
    \/ SimpleWriteJson

SpecDepth == InitDepth /\ [][NextDepth]_vars

(* ======================= properties of the runs ======================= *)

\* The flat element index the sidecar's [width, height, depth] stands for:
\* x fastest, z slowest.
Flat(d, x, y, zz) == x + d[1] * (y + d[2] * zz)

\* Byte i (from 0) of a raw file.
RawByte(f, i) ==
    IF script = "simple" THEN DataAt(f.content, i) ELSE NdByte(f.content, i)

\* Element i (from 0) of a raw file, little-endian.
Elem(f, itemsize, i) ==
    IF itemsize = 1 THEN RawByte(f, i)
    ELSE RawByte(f, 2 * i) + 256 * RawByte(f, 2 * i + 1)

\* The value of a key of a sidecar.
Field(meta, key) ==
    meta[CHOOSE i \in 1..Len(meta) : meta[i][1] = key][2]

ByteSize(dtype) == IF dtype = "uint8" THEN 1 ELSE 2

\* The generators of a script: loop statement, raw file, sidecar.
Generators(s) ==
    IF s = "simple"
    THEN { <<"simple.loop", "test-data/simple_test.raw", "test-data/simple_test.json">>,
           <<"checker.loop", "test-data/checker_test.raw", "test-data/checker_test.json">> }
    ELSE { <<"uint8.loop", "test_volume_uint8.raw", "test_volume_uint8.json">>,
           <<"uint16.loop", "test_volume_uint16.raw", "test_volume_uint16.json">>,
           <<"checker64.loop", "test_volume_checker.raw", "test_volume_checker.json">> }

\* The file a write statement writes.
PathOf(p) ==
    CASE p = "simple.raw" -> "test-data/simple_test.raw"
      [] p = "simple.json" -> "test-data/simple_test.json"
      [] p = "checker.raw" -> "test-data/checker_test.raw"
      [] p = "checker.json" -> "test-data/checker_test.json"
      [] p = "uint8.raw" -> "test_volume_uint8.raw"
      [] p = "uint8.json" -> "test_volume_uint8.json"
      [] p = "uint16.raw" -> "test_volume_uint16.raw"
      [] p = "uint16.json" -> "test_volume_uint16.json"
      [] p = "checker64.raw" -> "test_volume_checker.raw"
      [] p = "checker64.json" -> "test_volume_checker.json"

WriteStatements ==
    { "simple.raw", "simple.json", "checker.raw", "checker.json",
      "uint8.raw", "uint8.json", "uint16.raw", "uint16.json",
      "checker64.raw", "checker64.json" }

\* The voxels of a volume of dimensions d.
Voxels(d) == (0..(d[1] - 1)) \X (0..(d[2] - 1)) \X (0..(d[3] - 1))

\* Voxel (x, y, z) of the finished bytearray volume.
DataVoxel(x, y, zz) == DataAt(data, Flat(dim, x, y, zz))

\* The finished bytearray gradient: 0 at z = 0, top at z = depth-1,
\* non-decreasing in z, for every (x, y).
SimpleGradient(top) ==
    /\ DataLen(data) = dim[1] * dim[2] * dim[3]
    /\ \A c \in Voxels(dim) :
          /\ c[3] = 0 => DataVoxel(c[1], c[2], c[3]) = 0
          /\ c[3] = dim[3] - 1 => DataVoxel(c[1], c[2], c[3]) = top
          /\ c[3] < dim[3] - 1 =>
                DataVoxel(c[1], c[2], c[3]) <= DataVoxel(c[1], c[2], c[3] + 1)

\* The same of the finished numpy gradient volume[x, y, z].
Uint8Gradient(top) ==
    \A c \in Voxels(volume.shape) :
       /\ c[3] = 0 => At(volume, c[1], c[2], c[3]) = 0
       /\ c[3] = volume.shape[3] - 1 => At(volume, c[1], c[2], c[3]) = top
       /\ c[3] < volume.shape[3] - 1 =>
             At(volume, c[1], c[2], c[3]) <= At(volume, c[1], c[2], c[3] + 1)

\* C1 as stated: both finished gradient volumes are non-decreasing in z for
\* every (x, y), are 0 at z = 0 and are 255 at z = depth-1.
C1_GradientTo255 ==
    /\ pc = "simple.raw" => SimpleGradient(255)
    /\ pc = "uint8.raw" => Uint8Gradient(255)

\* C1 as amended: both finished gradient volumes are non-decreasing in z for
\* every (x, y) and are 0 at z = 0; at z = depth-1 the 16x16x16 volume of
\* create_simple_test_volume is 255 and the 64x64x64 volume of
\* create_test_volume_uint8 is 252.
C1_GradientTo255And252 ==
    /\ pc = "simple.raw" => SimpleGradient(255)
    /\ pc = "uint8.raw" => Uint8Gradient(252)

C1_Witness ==
    /\ pc = "uint8.raw"
    /\ volume.shape = <<64, 64, 64>>
    /\ At(volume, 5, 7, 0) = 0
    /\ At(volume, 5, 7, 63) = 252

\* C2: in the finished sphere volume every voxel at distance >= 12 from
\* (16,16,16) is 0 and every voxel at distance 0 is strictly positive.
C2_Sphere ==
    pc = "uint16.raw" =>
        \A c \in Voxels(volume.shape) :
           /\ Dist2(c[1], c[2], c[3]) >= 12 * 12
                 => At(volume, c[1], c[2], c[3]) = 0
           /\ Dist2(c[1], c[2], c[3]) = 0
                 => At(volume, c[1], c[2], c[3]) > 0

C2_Witness ==
    /\ pc = "uint16.raw"
    /\ volume.shape = <<32, 32, 32>>
    /\ At(volume, 16, 16, 16) = 4095
    /\ At(volume, 4, 16, 16) = 0
    /\ At(volume, 5, 16, 16) > 0

\* Two voxel values are opposite: one 255, the other 0.
Opposite(a, b) == (a = 255 /\ b = 0) \/ (a = 0 /\ b = 255)

\* C3: in both finished checkerboard volumes any two in-bounds voxels that
\* differ by one block (8) along exactly one axis are one 255 and one 0.
C3_Checker ==
    /\ pc = "checker.raw" =>
          \A c \in Voxels(dim) :
             /\ c[1] + 8 < dim[1] =>
                   Opposite(DataVoxel(c[1], c[2], c[3]),
                            DataVoxel(c[1] + 8, c[2], c[3]))
             /\ c[2] + 8 < dim[2] =>
                   Opposite(DataVoxel(c[1], c[2], c[3]),
                            DataVoxel(c[1], c[2] + 8, c[3]))
             /\ c[3] + 8 < dim[3] =>
                   Opposite(DataVoxel(c[1], c[2], c[3]),
                            DataVoxel(c[1], c[2], c[3] + 8))
    /\ pc = "checker64.raw" =>
          \A c \in Voxels(volume.shape) :
             /\ c[1] + 8 < volume.shape[1] =>
                   Opposite(At(volume, c[1], c[2], c[3]),
                            At(volume, c[1] + 8, c[2], c[3]))
             /\ c[2] + 8 < volume.shape[2] =>
                   Opposite(At(volume, c[1], c[2], c[3]),
                            At(volume, c[1], c[2] + 8, c[3]))
             /\ c[3] + 8 < volume.shape[3] =>
                   Opposite(At(volume, c[1], c[2], c[3]),
                            At(volume, c[1], c[2], c[3] + 8))

C3_Witness ==
    /\ pc = "checker64.raw"
    /\ volume.shape = <<64, 64, 64>>
    /\ At(volume, 63, 63, 63) = 0
    /\ At(volume, 55, 63, 63) = 255
    /\ At(volume, 63, 63, 55) = 255

\* C4: for every (raw, sidecar) pair written, the raw file's byte length is
\* the product of the sidecar's dimensions times the byte size of its
\* dataType, which is width * height * depth * element size of the volume.
C4_ByteLength ==
    \A g \in Generators(script) :
       (files[g[2]].st = "complete" /\ files[g[3]].st = "complete") =>
          /\ files[g[2]].n =
                Field(files[g[3]].content, "dimensions")[1]
                   * Field(files[g[3]].content, "dimensions")[2]
                   * Field(files[g[3]].content, "dimensions")[3]
                   * ByteSize(Field(files[g[3]].content, "dataType"))
          /\ files[g[2]].n =
                Dims(g[1])[1] * Dims(g[1])[2] * Dims(g[1])[3] * ItemSize(g[1])

C4_Witness ==
    /\ script = "data"
    /\ files["test_volume_uint16.raw"].st = "complete"
    /\ files["test_volume_uint16.json"].st = "complete"
    /\ files["test_volume_uint16.raw"].n = 65536

\* C5: simple_test.raw, once written, holds exactly 4096 bytes, the first
\* 256 (z = 0) all 0 and the last 256 (z = 15) all 255.
C5_SimpleRaw ==
    (script = "simple" /\ files["test-data/simple_test.raw"].st = "complete") =>
        /\ files["test-data/simple_test.raw"].n = 4096
        /\ \A i \in 0..255 : RawByte(files["test-data/simple_test.raw"], i) = 0
        /\ \A i \in (4096 - 256)..(4096 - 1) :
              RawByte(files["test-data/simple_test.raw"], i) = 255

C5_Witness ==
    /\ script = "simple"
    /\ files["test-data/simple_test.raw"].st = "complete"
    /\ RawByte(files["test-data/simple_test.raw"], 255) = 0
    /\ RawByte(files["test-data/simple_test.raw"], 4095) = 255

\* C6 as stated: in every raw file written, the element of voxel (x, y, z)
\* -- the value a bytearray generator computes for (x, y, z), a numpy
\* generator's volume[x, y, z] -- is at flat element index
\* x + width * (y + height * z), [width, height, depth] being the
\* sidecar's dimensions.
C6_XFastest ==
    /\ pc = "simple.json" =>
          \A c \in Voxels(dim) :
             Elem(files["test-data/simple_test.raw"], 1, Flat(dim, c[1], c[2], c[3]))
                = GradientValue(c[3], dim[3])
    /\ pc = "checker.json" =>
          \A c \in Voxels(dim) :
             Elem(files["test-data/checker_test.raw"], 1, Flat(dim, c[1], c[2], c[3]))
                = CheckerValue(c[1], c[2], c[3])
    /\ pc = "uint8.json" =>
          \A c \in Voxels(Uint8MetaDims) :
             Elem(files["test_volume_uint8.raw"], 1,
                  Flat(Uint8MetaDims, c[1], c[2], c[3]))
                = At(volume, c[1], c[2], c[3])
    /\ pc = "uint16.json" =>
          \A c \in Voxels(Uint16MetaDims) :
             Elem(files["test_volume_uint16.raw"], 2,
                  Flat(Uint16MetaDims, c[1], c[2], c[3]))
                = At(volume, c[1], c[2], c[3])
    /\ pc = "checker64.json" =>
          \A c \in Voxels(Checker64MetaDims) :
             Elem(files["test_volume_checker.raw"], 1,
                  Flat(Checker64MetaDims, c[1], c[2], c[3]))
                = At(volume, c[1], c[2], c[3])

\* No file of a write statement that comes after statement `at` in the
\* script's order has been touched.
LaterUntouched(s, at, f) ==
    \A i \in 1..Len(Order(s)) :
       (i > Pos(s, at) /\ Order(s)[i] \in WriteStatements)
          => f[PathOf(Order(s)[i])] = Absent

\* C7: a failed filesystem write ends the run at once: the run is aborted
\* at the failing statement, every file of a later statement is untouched,
\* and from then on no file changes and no statement runs (no retry).
C7_WriteFailureAborts ==
    [][ /\ (err = "none" /\ err' = "OSError") =>
              /\ pc' = "aborted"
              /\ failedAt' = pc
              /\ LaterUntouched(script, pc, files')
        /\ err = "OSError" => (files' = files /\ pc' = pc /\ err' = err) ]_vars

C7_Witness ==
    /\ script = "data"
    /\ pc = "aborted"
    /\ err = "OSError"
    /\ failedAt = "uint8.raw"
    /\ files["test_volume_uint8.raw"].st = "partial"
    /\ files["test_volume_uint16.raw"] = Absent

C9_InRange ==
    /\ err # "ValueError"
    /\ pc = "simple.raw" =>
          /\ DataLen(data) = dim[1] * dim[2] * dim[3]
          /\ \A c \in Voxels(dim) :
                /\ DataVoxel(c[1], c[2], c[3]) = GradientValue(c[3], dim[3])
                /\ GradientValue(c[3], dim[3]) \in 0..255
    /\ pc = "checker.raw" =>
          /\ DataLen(data) = dim[1] * dim[2] * dim[3]
          /\ \A c \in Voxels(dim) :
                /\ DataVoxel(c[1], c[2], c[3]) = CheckerValue(c[1], c[2], c[3])
                /\ CheckerValue(c[1], c[2], c[3]) \in 0..255
    /\ pc = "uint8.raw" =>
          \A c \in Voxels(volume.shape) :
             /\ At(volume, c[1], c[2], c[3]) = GradientU8(c[3])
             /\ GradientU8(c[3]) \in 0..255
    /\ pc = "uint16.raw" =>
          \A c \in Voxels(volume.shape) :
             IF InSphere(Dist2(c[1], c[2], c[3]))
             THEN /\ At(volume, c[1], c[2], c[3]) = SphereValue(Dist2(c[1], c[2], c[3]))
                  /\ SphereValue(Dist2(c[1], c[2], c[3])) \in 0..4095
             ELSE At(volume, c[1], c[2], c[3]) = 0
    /\ pc = "checker64.raw" =>
          \A c \in Voxels(volume.shape) :
             At(volume, c[1], c[2], c[3])
                = IF Checker64Lit(c[1], c[2], c[3]) THEN 255 ELSE 0

C9_Witness ==
    /\ pc = "uint16.raw"
    /\ At(volume, 16, 16, 16) = 4095
    /\ At(volume, 16, 16, 15) = 3753

\* C10: every file is opened for writing at most once; a sidecar that has
\* been opened has its raw file complete next to it; a run that ends
\* without error has written every raw file and every sidecar in full.
C10_WriteOrder ==
    /\ \A p \in Paths(script) : files[p].opens <= 1
    /\ \A g \in Generators(script) :
          files[g[3]] # Absent => files[g[2]].st = "complete"
    /\ pc = "done" =>
          \A p \in Paths(script) : files[p].st = "complete"

C10_Witness ==
    /\ script = "data"
    /\ pc = "aborted"
    /\ files["test_volume_uint8.json"].st = "complete"
    /\ files["test_volume_uint16.raw"].st = "complete"
    /\ files["test_volume_uint16.json"].st = "partial"
    /\ files["test_volume_checker.raw"] = Absent

====
